---- MODULE Spec2Model ----
(***************************************************************************)
(* Model of the settlement lookup tool (src/App.tsx, the Pagination        *)
(* component, src/utils/textUtils.ts): text normalisation, free-text       *)
(* search, cascading column filters, option lists and pagination, together *)
(* with the React state, memoised views, the deferred search term and the  *)
(* page-reset effect of the App component.                                 *)
(*                                                                         *)
(* A string is a sequence of Unicode code points (TLC cannot index its own *)
(* strings); the empty string is << >>.  A record is a TLA+ record with    *)
(* the five fields of YerlesimYeri.                                        *)
(***************************************************************************)
EXTENDS Integers, Sequences, FiniteSets, TLC

VARIABLES
    loading,             \* useState(true)                      App.tsx:13
    usingSampleData,     \* useState(false)                     App.tsx:15
    yerlesimVerileri,    \* useState<YerlesimYeri[]>([])        App.tsx:12
    searchTerm,          \* useState('')                        App.tsx:17
    deferredSearchTerm,  \* useDeferredValue(searchTerm)        App.tsx:29
    filters,             \* useState({il:'',...})               App.tsx:20
    currentPage,         \* useState(1)                         App.tsx:18
    searchedData,        \* useMemo                             App.tsx:91
    filteredData,        \* useMemo                             App.tsx:108
    ilOptions,           \* useMemo                             App.tsx:142
    ilceOptions,         \* useMemo                             App.tsx:143
    belediyeOptions,     \* useMemo                             App.tsx:144
    durumOptions,        \* useMemo                             App.tsx:145
    currentData,         \* useMemo                             App.tsx:150
    resetEffectPending,  \* the effect of App.tsx:155 is scheduled and has not run
    normInput,           \* the argument of normalizeTurkish   textUtils.ts:11
    normOutput,          \* what normalizeTurkish returned     textUtils.ts:25
    normCalls            \* how often normalizeTurkish was applied to its own result

\* The state of the App component.
appVars == << loading, usingSampleData, yerlesimVerileri, searchTerm,
              deferredSearchTerm, filters, currentPage, searchedData,
              filteredData, ilOptions, ilceOptions, belediyeOptions,
              durumOptions, currentData, resetEffectPending >>

\* The argument and the result of the normaliser when it is run on its own.
normVars == << normInput, normOutput, normCalls >>

vars == << appVars, normVars >>

(***************************************************************************)
(* Strings                                                                 *)
(***************************************************************************)

\* The five fields of a record, in the order of the interface.
Fields == << "il", "ilce", "belediye", "mahalle", "durum" >>

FieldSet == { Fields[i] : i \in 1..Len(Fields) }

\* The four fields that have a dropdown.
SelectFields == { "il", "ilce", "belediye", "durum" }

\* String.prototype.toLocaleLowerCase('tr-TR') on one code point:
\* I -> dotless i (305), I-with-dot (304) -> i, otherwise the simple
\* lowercase mapping of Basic Latin, Latin-1 and G-breve / S-cedilla.
toLocaleLowerCaseTR(c) ==
    CASE c = 73 -> 305
      [] c = 304 -> 105
      [] c \in 65..90 -> c + 32
      [] c \in (192..214) \cup (216..222) -> c + 32
      [] c \in {286, 350} -> c + 1
      [] OTHER -> c

\* One pass of .replace(/from/g, to) over a string.
replaceAll(s, from, to) ==
    [i \in 1..Len(s) |-> IF s[i] = from THEN to ELSE s[i]]

\* Variant of normalizeTurkish that folds the letters before it lowercases.
normalizeTurkish_FoldFirst(t) ==
    IF t = << >> THEN << >>
    ELSE LET r1 == replaceAll(t, 287, 103)
             r2 == replaceAll(r1, 252, 117)
             r3 == replaceAll(r2, 351, 115)
             r4 == replaceAll(r3, 305, 105)
             r5 == replaceAll(r4, 246, 111)
             r6 == replaceAll(r5, 231, 99)
         IN [i \in 1..Len(r6) |-> toLocaleLowerCaseTR(r6[i])]

\* Variant of normalizeTurkish without the replacement of the dotless i.
normalizeTurkish_KeepDotlessI(t) ==
    IF t = << >> THEN << >>
    ELSE LET lowered == [i \in 1..Len(t) |-> toLocaleLowerCaseTR(t[i])]
             r1 == replaceAll(lowered, 287, 103)
             r2 == replaceAll(r1, 252, 117)
             r3 == replaceAll(r2, 351, 115)
             r5 == replaceAll(r3, 246, 111)
             r6 == replaceAll(r5, 231, 99)
         IN r6

\* normalizeTurkish: empty for a falsy text, otherwise Turkish lowercasing
\* followed by the six replacements in the order of the source.
normalizeTurkish(text) ==
    IF text = << >> THEN << >>
    ELSE LET lowered == [i \in 1..Len(text) |-> toLocaleLowerCaseTR(text[i])]
             r1 == replaceAll(lowered, 287, 103)   \* g-breve  -> g
             r2 == replaceAll(r1, 252, 117)        \* u-uml    -> u
             r3 == replaceAll(r2, 351, 115)        \* s-cedil  -> s
             r4 == replaceAll(r3, 305, 105)        \* dotless i -> i
             r5 == replaceAll(r4, 246, 111)        \* o-uml    -> o
             r6 == replaceAll(r5, 231, 99)         \* c-cedil  -> c
         IN r6

\* String.prototype.includes: t occurs in s as a contiguous substring.
includes(s, t) ==
    \E k \in 0..(Len(s) - Len(t)) : SubSeq(s, k + 1, k + Len(t)) = t

(***************************************************************************)
(* String.prototype.localeCompare(b, 'tr')                                 *)
(***************************************************************************)

\* The letters of the Turkish collation in ascending primary order:
\* a b c c-cedilla d e f g g-breve h dotless-i i j k l m n o o-uml p q r s
\* s-cedilla t u u-uml v w x y z.
TrAlphabet ==
    << 97, 98, 99, 231, 100, 101, 102, 103, 287, 104, 305, 105, 106, 107, 108, 109, 110, 111, 246, 112, 113, 114, 115, 351, 116, 117, 252, 118, 119, 120, 121, 122 >>

\* Primary collation weight of a code point: 0 for anything that sorts
\* before the letters (the space among them), otherwise the position of the
\* letter in the Turkish alphabet, the same for both cases.
primaryWeight(c) ==
    LET l == toLocaleLowerCaseTR(c)
        at == { i \in 1..Len(TrAlphabet) : TrAlphabet[i] = l }
    IN IF at = {} THEN 0 ELSE CHOOSE i \in at : TRUE

\* Tertiary (case) weight: lowercase sorts before uppercase.
caseWeight(c) == IF toLocaleLowerCaseTR(c) = c THEN 0 ELSE 1

\* Lexicographic comparison of two weight sequences: -1, 0 or 1.
RECURSIVE compareWeights(_, _)
compareWeights(a, b) ==
    IF a = << >> /\ b = << >> THEN 0
    ELSE IF a = << >> THEN -1
    ELSE IF b = << >> THEN 1
    ELSE IF Head(a) < Head(b) THEN -1
    ELSE IF Head(a) > Head(b) THEN 1
    ELSE compareWeights(Tail(a), Tail(b))

\* a.localeCompare(b, 'tr'): the primary weights decide; strings equal at
\* the primary level are separated by case.
localeCompareTR(a, b) ==
    LET p == compareWeights([i \in 1..Len(a) |-> primaryWeight(a[i])],
                            [i \in 1..Len(b) |-> primaryWeight(b[i])])
    IN IF p # 0 THEN p
       ELSE compareWeights([i \in 1..Len(a) |-> caseWeight(a[i])],
                           [i \in 1..Len(b) |-> caseWeight(b[i])])

\* Insertion of v into a sorted list, after every element not greater than it
\* (Array.prototype.sort is stable).
RECURSIVE insertSorted(_, _)
insertSorted(v, sorted) ==
    IF sorted = << >> THEN << v >>
    ELSE IF localeCompareTR(v, Head(sorted)) < 0 THEN << v >> \o sorted
    ELSE << Head(sorted) >> \o insertSorted(v, Tail(sorted))

\* .sort((a, b) => a.localeCompare(b, 'tr'))
RECURSIVE sortTR(_)
sortTR(list) ==
    IF list = << >> THEN << >>
    ELSE insertSorted(list[Len(list)], sortTR(SubSeq(list, 1, Len(list) - 1)))

(***************************************************************************)
(* JSON values that are not strings                                        *)
(*                                                                         *)
(* A string holds code points, which are not negative.  Every other value  *)
(* a field of the parsed file can hold is a sequence that starts with a    *)
(* negative tag.                                                           *)
(***************************************************************************)

\* null
JsNull == << -1 >>

\* the number n
JsNumber(n) == << -2, n >>

\* true
JsTrue == << -3 >>

\* typeof val === 'string'
isString(val) == \A i \in 1..Len(val) : val[i] >= 0

\* !val for a field value: "", null and 0 are falsy.
falsy(val) == val = << >> \/ val = JsNull \/ val = JsNumber(0)

\* An element of the parsed array that is null instead of an object.
JsNullItem == [isNull |-> TRUE]

(***************************************************************************)
(* The query pipeline                                                      *)
(***************************************************************************)

\* Page size.
ITEMS_PER_PAGE == 50

\* Variant of matchesSearch that compares the raw fields with the normalised
\* query (the fields are not normalised).
matchesSearch_RawFields(item, normalizedQuery) ==
    \/ includes(item.il, normalizedQuery)
    \/ includes(item.ilce, normalizedQuery)
    \/ includes(item.belediye, normalizedQuery)
    \/ includes(item.mahalle, normalizedQuery)
    \/ includes(item.durum, normalizedQuery)

\* The predicate of the search filter: some field, normalised, contains the
\* normalised query.
matchesSearch(item, normalizedQuery) ==
    \/ includes(normalizeTurkish(item.il), normalizedQuery)
    \/ includes(normalizeTurkish(item.ilce), normalizedQuery)
    \/ includes(normalizeTurkish(item.belediye), normalizedQuery)
    \/ includes(normalizeTurkish(item.mahalle), normalizedQuery)
    \/ includes(normalizeTurkish(item.durum), normalizedQuery)

\* Variant of computeSearchedData that shows nothing until a query is typed.
computeSearchedData_NothingWithoutQuery(data, term) ==
    IF term = << >> THEN << >>
    ELSE LET normalizedQuery == normalizeTurkish(term)
         IN SelectSeq(data, LAMBDA item : matchesSearch(item, normalizedQuery))

\* Variant of computeSearchedData that looks for the query as typed in the
\* normalised fields.
computeSearchedData_RawQuery(data, term) ==
    IF term = << >> THEN data
    ELSE SelectSeq(data, LAMBDA item : matchesSearch(item, term))

\* Body of the searchedData memo.
computeSearchedData(data, term) ==
    IF term = << >> THEN data
    ELSE LET normalizedQuery == normalizeTurkish(term)
         IN SelectSeq(data, LAMBDA item : matchesSearch(item, normalizedQuery))

\* Variant of matchesFilters in which mahalle is an exact match like the
\* other four fields.
matchesFilters_ExactMahalle(item, f) ==
    /\ (f.il = << >> \/ item.il = f.il)
    /\ (f.ilce = << >> \/ item.ilce = f.ilce)
    /\ (f.belediye = << >> \/ item.belediye = f.belediye)
    /\ (f.mahalle = << >> \/ item.mahalle = f.mahalle)
    /\ (f.durum = << >> \/ item.durum = f.durum)

\* Variant of matchesFilters in which an empty il constraint is not a
\* pass-through.
matchesFilters_EmptyIlConstrains(item, f) ==
    /\ item.il = f.il
    /\ (f.ilce = << >> \/ item.ilce = f.ilce)
    /\ (f.belediye = << >> \/ item.belediye = f.belediye)
    /\ (f.mahalle = << >>
          \/ includes(normalizeTurkish(item.mahalle), normalizeTurkish(f.mahalle)))
    /\ (f.durum = << >> \/ item.durum = f.durum)

\* The predicate of the column filter.
matchesFilters(item, f) ==
    /\ (f.il = << >> \/ item.il = f.il)
    /\ (f.ilce = << >> \/ item.ilce = f.ilce)
    /\ (f.belediye = << >> \/ item.belediye = f.belediye)
    /\ (f.mahalle = << >>
          \/ includes(normalizeTurkish(item.mahalle), normalizeTurkish(f.mahalle)))
    /\ (f.durum = << >> \/ item.durum = f.durum)

\* Variant of computeFilteredData that filters the raw dataset instead of the
\* searched list.
computeFilteredData_OnRawData(searched, f) ==
    SelectSeq(yerlesimVerileri, LAMBDA item : matchesFilters(item, f))

\* Body of the filteredData memo.
computeFilteredData(searched, f) ==
    SelectSeq(searched, LAMBDA item : matchesFilters(item, f))

\* Array.from(new Set(list)): the first occurrence of each value, in order
\* (computed by halves: the values of the second half that the first half
\* does not have follow those of the first half).
RECURSIVE uniqueValues(_)
uniqueValues(list) ==
    IF Len(list) <= 1 THEN list
    ELSE LET mid == Len(list) \div 2
             left == uniqueValues(SubSeq(list, 1, mid))
             right == uniqueValues(SubSeq(list, mid + 1, Len(list)))
         IN left \o SelectSeq(right, LAMBDA v : \A i \in 1..Len(left) : left[i] # v)

\* Variant of getOptions that keeps the empty string among the options (the
\* form of the older copy of the component, App.tsx:474-495).
getOptions_KeepEmpty(searched, f, key) ==
    LET otherFilters == [k \in (DOMAIN f) \ {key} |-> f[k]]
        dataForOptions ==
            SelectSeq(searched, LAMBDA item :
                \A k \in DOMAIN otherFilters :
                    IF otherFilters[k] = << >> THEN TRUE
                    ELSE IF k = "mahalle"
                         THEN includes(normalizeTurkish(item.mahalle),
                                       normalizeTurkish(otherFilters[k]))
                         ELSE item[k] = otherFilters[k])
        values == uniqueValues([i \in 1..Len(dataForOptions) |-> dataForOptions[i][key]])
    IN sortTR(values)

\* Variant of getOptions that does not apply the other fields' constraints.
getOptions_IgnoreOthers(searched, f, key) ==
    LET values == uniqueValues([i \in 1..Len(searched) |-> searched[i][key]])
    IN sortTR(SelectSeq(values, LAMBDA val : isString(val) /\ val # << >>))

\* getOptions(key): the other fields' constraints applied to the searched
\* list, the distinct values of key, non-strings and empty strings removed,
\* sorted.
getOptions(searched, f, key) ==
    LET otherFilters == [k \in (DOMAIN f) \ {key} |-> f[k]]
        dataForOptions ==
            SelectSeq(searched, LAMBDA item :
                \A k \in DOMAIN otherFilters :
                    IF otherFilters[k] = << >> THEN TRUE
                    ELSE IF k = "mahalle"
                         THEN includes(normalizeTurkish(item.mahalle),
                                       normalizeTurkish(otherFilters[k]))
                         ELSE item[k] = otherFilters[k])
        values == uniqueValues([i \in 1..Len(dataForOptions) |-> dataForOptions[i][key]])
    IN sortTR(SelectSeq(values, LAMBDA val : isString(val) /\ val # << >>))

\* Variant of computeTotalPages that rounds down.
computeTotalPages_Floor(filtered) ==
    Len(filtered) \div ITEMS_PER_PAGE

\* Math.ceil(n / ITEMS_PER_PAGE) for a list of n records.
computeTotalPages(filtered) ==
    (Len(filtered) + ITEMS_PER_PAGE - 1) \div ITEMS_PER_PAGE

\* Array.prototype.slice(from, to) for 0 <= from <= to.
slice(list, from, to) ==
    LET hi == IF to < Len(list) THEN to ELSE Len(list)
    IN IF from >= hi THEN << >> ELSE SubSeq(list, from + 1, hi)

\* Variant of computeCurrentData whose first page starts after 50 records.
computeCurrentData_FromPage(page, filtered) ==
    LET startIndex == page * ITEMS_PER_PAGE
    IN slice(filtered, startIndex, startIndex + ITEMS_PER_PAGE)

\* Body of the currentData memo.
computeCurrentData(page, filtered) ==
    LET startIndex == (page - 1) * ITEMS_PER_PAGE
    IN slice(filtered, startIndex, startIndex + ITEMS_PER_PAGE)

(***************************************************************************)
(* Pagination component                                                    *)
(***************************************************************************)

\* The '...' entry of the page list (no page has this number).
ELLIPSIS == 0

\* getPageNumbers(): the entries of the page bar, left to right.
getPageNumbers(page, total) ==
    LET maxVisiblePages == 5
    IN IF total <= maxVisiblePages
       THEN [i \in 1..total |-> i]
       ELSE LET startPage0 == IF page - 1 > 2 THEN page - 1 ELSE 2
                endPage0 == IF page + 1 < total - 1 THEN page + 1 ELSE total - 1
                endPage == IF page <= 3 THEN 4 ELSE endPage0
                startPage == IF page <= 3 THEN startPage0
                             ELSE IF page >= total - 2 THEN total - 3
                             ELSE startPage0
            IN << 1 >>
               \o (IF startPage > 2 THEN << ELLIPSIS >> ELSE << >>)
               \o [i \in 1..(endPage - startPage + 1) |-> startPage + i - 1]
               \o (IF endPage < total - 1 THEN << ELLIPSIS >> ELSE << >>)
               \o << total >>

\* The page numbers that have a button in the page bar.
pageButtons(page, total) ==
    LET entries == getPageNumbers(page, total)
    IN { entries[i] : i \in { j \in 1..Len(entries) : entries[j] # ELLIPSIS } }

(***************************************************************************)
(* Inputs: the record files the fetch can deliver, what the user can type  *)
(***************************************************************************)

\* I-with-dot z m i r
Izmir ==
    << 304, 122, 109, 105, 114 >>

\* C-cedilla e s-cedilla m e
Cesme ==
    << 199, 101, 351, 109, 101 >>

\* I l dotless-i c a
Ilica ==
    << 73, 108, 305, 99, 97 >>

\* I L I C A
IlicaUpper ==
    << 73, 76, 73, 67, 65 >>

\* K dotless-i r s a l, space, A l a n
Kirsal ==
    << 75, 305, 114, 115, 97, 108, 32, 65, 108, 97, 110 >>

\* K e n t s e l, space, A l a n
Kentsel ==
    << 75, 101, 110, 116, 115, 101, 108, 32, 65, 108, 97, 110 >>

\* C-cedilla o r u m
Corum ==
    << 199, 111, 114, 117, 109 >>

\* D e n i z l i
Denizli ==
    << 68, 101, 110, 105, 122, 108, 105 >>

\* O v a c dotless-i k
Ovacik ==
    << 79, 118, 97, 99, 305, 107 >>

\* U r l a
Urla ==
    << 85, 114, 108, 97 >>

\* S u n g u r l u
Sungurlu ==
    << 83, 117, 110, 103, 117, 114, 108, 117 >>

\* P a m u k k a l e
Pamukkale ==
    << 80, 97, 109, 117, 107, 107, 97, 108, 101 >>

\* c e s m e (plain ASCII)
QueryCesme ==
    << 99, 101, 115, 109, 101 >>

\* I Z (plain ASCII capitals)
QueryIZ ==
    << 73, 90 >>

\* A record with all five fields present.
Rec(il, ilce, belediye, mahalle, durum) ==
    [il |-> il, ilce |-> ilce, belediye |-> belediye, mahalle |-> mahalle, durum |-> durum]

\* Length of the long record file: seven pages of ITEMS_PER_PAGE.
BigLen == 301

\* How many records at the head of the long file belong to the first il.
BigHead == 60

\* A short record file as parsed from JSON: a province with two districts,
\* two more provinces, one record without a belediye, one record twice.
RawSmall ==
    << Rec(Izmir, Cesme, Cesme, Ilica, Kirsal),
       [il |-> Izmir, ilce |-> Cesme, mahalle |-> Ovacik, durum |-> Kentsel],
       Rec(Izmir, Urla, Urla, Ovacik, Kirsal),
       Rec(Denizli, Pamukkale, Pamukkale, IlicaUpper, Kentsel),
       Rec(Corum, Sungurlu, Sungurlu, Ilica, Kirsal),
       Rec(Izmir, Cesme, Cesme, Ilica, Kirsal) >>

\* A long record file: only il and mahalle are present in its records.
RawBig ==
    [i \in 1..BigLen |->
        IF i <= BigHead THEN [il |-> Izmir, mahalle |-> Ilica]
        ELSE [il |-> Corum, mahalle |-> Ovacik]]

\* A record file with a null element.
RawBroken ==
    << Rec(Izmir, Cesme, Cesme, Ilica, Kirsal), JsNullItem >>

\* The record files of the model; the empty file is one of them.
RawDataSets == { << >>, RawSmall, RawBig, RawBroken }

\* Why the try block is left before the sanitization: fetch rejects, the
\* response is not ok, the body is not JSON, the JSON is not an array.
FetchFailures == { "rejected", "notOk", "invalidJson", "notArray" }

\* The hard-coded fallback records (yerlesimVerileri of ./data).
sampleData ==
    << Rec(Izmir, Urla, Urla, Ovacik, Kirsal),
       Rec(Denizli, Pamukkale, Pamukkale, Ilica, Kentsel) >>

\* What the user types into the search box.
SearchInputs == { << >>, QueryCesme, QueryIZ }

\* What the user types into the mahalle box.
MahalleInputs == { << >>, IlicaUpper }

\* item.x || "": a field that is absent or falsy becomes "", every other
\* value is kept as it is.
orEmpty(item, key) ==
    IF key \in DOMAIN item /\ ~falsy(item[key]) THEN item[key] ELSE << >>

\* Reading item.il of a null element throws a TypeError.
sanitizeThrows(rawData) ==
    \E i \in 1..Len(rawData) : "isNull" \in DOMAIN rawData[i]

\* Data sanitization of fetchData.
sanitize(rawData) ==
    [i \in 1..Len(rawData) |->
        [il |-> orEmpty(rawData[i], "il"),
         ilce |-> orEmpty(rawData[i], "ilce"),
         belediye |-> orEmpty(rawData[i], "belediye"),
         mahalle |-> orEmpty(rawData[i], "mahalle"),
         durum |-> orEmpty(rawData[i], "durum")]]

(***************************************************************************)
(* The App component: state, render and handlers                           *)
(***************************************************************************)

\* The initial value of the filters state (also what handleReset sets).
emptyFilters ==
    [il |-> << >>, ilce |-> << >>, belediye |-> << >>, mahalle |-> << >>, durum |-> << >>]

\* totalPages of the current render.
totalPages == computeTotalPages(filteredData)

\* The option list a dropdown shows.
optionsOf(key) ==
    CASE key = "il" -> ilOptions
      [] key = "ilce" -> ilceOptions
      [] key = "belediye" -> belediyeOptions
      [] key = "durum" -> durumOptions

\* The set of the entries of a list.
Range(list) == { list[i] : i \in 1..Len(list) }

\* Variant of optionDepsChanged whose dependency list lacks filters.mahalle.
optionDepsChanged_NoMahalle(key, searchedChanged, f) ==
    searchedChanged \/ \E k \in SelectFields \ {key} : f[k] # filters[k]

\* Variant of optionDepsChanged without the searched list.
optionDepsChanged_NoSearched(key, searchedChanged, f) ==
    \E k \in FieldSet \ {key} : f[k] # filters[k]

\* The dependency list of the option memo of key: the searched list and the
\* filter values of the four other fields.
optionDepsChanged(key, searchedChanged, f) ==
    searchedChanged \/ \E k \in FieldSet \ {key} : f[k] # filters[k]

\* One render of App with the given state: every memo whose dependency list
\* changed is recomputed, the others keep their value.  filtersSet says that
\* setFilters stored a new object in this update.  An array dependency
\* changes when the memo that produces it ran.
Render(data, deferred, f, filtersSet, page) ==
    LET searchedChanged == deferred # deferredSearchTerm \/ data # yerlesimVerileri
        searched == IF searchedChanged THEN computeSearchedData(data, deferred)
                    ELSE searchedData
        filteredChanged == searchedChanged \/ filtersSet
        filtered == IF filteredChanged THEN computeFilteredData(searched, f)
                    ELSE filteredData
    IN /\ yerlesimVerileri' = data
       /\ deferredSearchTerm' = deferred
       /\ filters' = f
       /\ currentPage' = page
       /\ searchedData' = searched
       /\ filteredData' = filtered
       /\ ilOptions' = IF optionDepsChanged("il", searchedChanged, f)
                       THEN getOptions(searched, f, "il") ELSE ilOptions
       /\ ilceOptions' = IF optionDepsChanged("ilce", searchedChanged, f)
                         THEN getOptions(searched, f, "ilce") ELSE ilceOptions
       /\ belediyeOptions' = IF optionDepsChanged("belediye", searchedChanged, f)
                             THEN getOptions(searched, f, "belediye") ELSE belediyeOptions
       /\ durumOptions' = IF optionDepsChanged("durum", searchedChanged, f)
                          THEN getOptions(searched, f, "durum") ELSE durumOptions
       /\ currentData' = IF page # currentPage \/ filteredChanged
                         THEN computeCurrentData(page, filtered) ELSE currentData
       /\ UNCHANGED normVars

\* The state of App after the first render: loading, nothing fetched, the
\* effects of the mount scheduled.
Init ==
    /\ normInput = << >>
    /\ normOutput = << >>
    /\ normCalls = 0
    /\ loading = TRUE
    /\ usingSampleData = FALSE
    /\ yerlesimVerileri = << >>
    /\ searchTerm = << >>
    /\ deferredSearchTerm = << >>
    /\ filters = emptyFilters
    /\ currentPage = 1
    /\ searchedData = << >>
    /\ filteredData = << >>
    /\ ilOptions = << >>
    /\ ilceOptions = << >>
    /\ belediyeOptions = << >>
    /\ durumOptions = << >>
    /\ currentData = << >>
    /\ resetEffectPending = TRUE

\* The page-reset effect (dependencies searchTerm and filters) runs:
\* setCurrentPage(1), and the render that follows.
RunResetEffect ==
    /\ resetEffectPending
    /\ resetEffectPending' = FALSE
    /\ Render(yerlesimVerileri, deferredSearchTerm, filters, FALSE, 1)
    /\ UNCHANGED << loading, usingSampleData, searchTerm >>

\* fetchData, the try branch: the file is fetched, parsed and sanitized.
FetchSucceeds(rawData) ==
    /\ loading
    /\ ~resetEffectPending
    /\ ~sanitizeThrows(rawData)
    /\ loading' = FALSE
    /\ usingSampleData' = FALSE
    /\ Render(sanitize(rawData), deferredSearchTerm, filters, FALSE, currentPage)
    /\ UNCHANGED << searchTerm, resetEffectPending >>

\* Variant of FetchFails whose catch block does not install the fallback
\* records.
FetchFails_NoFallback(cause) ==
    /\ loading
    /\ ~resetEffectPending
    /\ cause \in FetchFailures
    /\ loading' = FALSE
    /\ usingSampleData' = TRUE
    /\ Render(yerlesimVerileri, deferredSearchTerm, filters, FALSE, currentPage)
    /\ UNCHANGED << searchTerm, resetEffectPending >>

\* fetchData, the catch and finally blocks after a failure before the
\* sanitization: the fallback records are used.
FetchFails(cause) ==
    /\ loading
    /\ ~resetEffectPending
    /\ cause \in FetchFailures
    /\ loading' = FALSE
    /\ usingSampleData' = TRUE
    /\ Render(sampleData, deferredSearchTerm, filters, FALSE, currentPage)
    /\ UNCHANGED << searchTerm, resetEffectPending >>

\* fetchData, the catch and finally blocks after the sanitization threw.
SanitizeThrows(rawData) ==
    /\ loading
    /\ ~resetEffectPending
    /\ sanitizeThrows(rawData)
    /\ loading' = FALSE
    /\ usingSampleData' = TRUE
    /\ Render(sampleData, deferredSearchTerm, filters, FALSE, currentPage)
    /\ UNCHANGED << searchTerm, resetEffectPending >>

\* The user can act: the table is rendered and no effect is waiting to run
\* (the effects of a render caused by an input event run before the next
\* event is handled).
Interactive == ~loading /\ ~resetEffectPending

\* Variant of SetSearchTerm for a reset effect whose dependency list lacks
\* searchTerm: typing does not schedule the effect.
SetSearchTerm_NoReset(value) ==
    /\ ~loading /\ ~resetEffectPending
    /\ value # searchTerm
    /\ searchTerm' = value
    /\ Render(yerlesimVerileri, deferredSearchTerm, filters, FALSE, currentPage)
    /\ UNCHANGED << loading, usingSampleData, resetEffectPending >>

\* onChange of the search box: setSearchTerm(value).  The render this causes
\* is urgent, so useDeferredValue keeps returning the previous term.
SetSearchTerm(value) ==
    /\ Interactive
    /\ value # searchTerm
    /\ searchTerm' = value
    /\ resetEffectPending' = TRUE
    /\ Render(yerlesimVerileri, deferredSearchTerm, filters, FALSE, currentPage)
    /\ UNCHANGED << loading, usingSampleData >>

\* The deferred render: useDeferredValue catches up with searchTerm.  Neither
\* searchTerm nor filters changes, so the reset effect does not run.
DeferredRender ==
    /\ Interactive
    /\ deferredSearchTerm # searchTerm
    /\ Render(yerlesimVerileri, searchTerm, filters, FALSE, currentPage)
    /\ UNCHANGED << loading, usingSampleData, searchTerm, resetEffectPending >>

\* The value a <select> displays: the filter value when it is one of the
\* rendered options, otherwise the first option ("Tumu", value "").
shownValue(key) ==
    IF filters[key] \in Range(optionsOf(key)) THEN filters[key] ELSE << >>

\* handleFilterChange(key, value): setFilters(prev => ({...prev, [key]: value})).
handleFilterChange(key, value) ==
    /\ resetEffectPending' = TRUE
    /\ Render(yerlesimVerileri, deferredSearchTerm, [filters EXCEPT ![key] = value],
              TRUE, currentPage)
    /\ UNCHANGED << loading, usingSampleData, searchTerm >>

\* onChange of one of the four <select>s: the user picks another entry.
SelectOption(key, value) ==
    /\ Interactive
    /\ key \in SelectFields
    /\ value \in Range(optionsOf(key)) \cup { << >> }
    /\ value # shownValue(key)
    /\ handleFilterChange(key, value)

\* onChange of the mahalle box.
TypeMahalle(value) ==
    /\ Interactive
    /\ value # filters.mahalle
    /\ handleFilterChange("mahalle", value)

\* handleReset, from the clear button of the search box (shown when a search
\* term or a filter is set) or from the button of the empty table.
handleReset ==
    /\ Interactive
    /\ \/ searchTerm # << >>
       \/ \E k \in FieldSet : filters[k] # << >>
       \/ currentData = << >>
    /\ searchTerm' = << >>
    /\ resetEffectPending' = TRUE
    /\ Render(yerlesimVerileri, deferredSearchTerm, emptyFilters, TRUE, 1)
    /\ UNCHANGED << loading, usingSampleData >>

\* onPageChange={setCurrentPage}
onPageChange(page) ==
    /\ Render(yerlesimVerileri, deferredSearchTerm, filters, FALSE, page)
    /\ UNCHANGED << loading, usingSampleData, searchTerm, resetEffectPending >>

\* The previous-page button: rendered when totalPages > 1, disabled on page 1.
ClickPrevious ==
    /\ Interactive
    /\ totalPages > 1
    /\ currentPage # 1
    /\ onPageChange(currentPage - 1)

\* The next-page button: rendered when totalPages > 1, disabled on the last page.
ClickNext ==
    /\ Interactive
    /\ totalPages > 1
    /\ currentPage # totalPages
    /\ onPageChange(currentPage + 1)

\* A numbered button of the page bar.
ClickPage(page) ==
    /\ Interactive
    /\ totalPages > 1
    /\ page \in pageButtons(currentPage, totalPages)
    /\ onPageChange(page)

\* The largest page number the model follows (next can pass totalPages).
MaxPage == 9

Next ==
    \/ RunResetEffect
    \/ \E rawData \in RawDataSets : FetchSucceeds(rawData)
    \/ \E cause \in FetchFailures : FetchFails(cause)
    \/ \E rawData \in RawDataSets : SanitizeThrows(rawData)
    \/ \E value \in SearchInputs : SetSearchTerm(value)
    \/ DeferredRender
    \/ \E key \in SelectFields : \E value \in Range(optionsOf(key)) \cup { << >> } :
           SelectOption(key, value)
    \/ \E value \in MahalleInputs : TypeMahalle(value)
    \/ handleReset
    \/ ClickPrevious
    \/ (currentPage < MaxPage /\ ClickNext)
    \/ \E page \in 1..MaxPage : ClickPage(page)

Spec == Init /\ [][Next]_vars

(***************************************************************************)
(* The normaliser on its own: normalizeTurkish applied to a text and then  *)
(* to its own result                                                       *)
(***************************************************************************)

\* The code points of the texts: the four forms of I, the five other Turkish
\* letter pairs, A, a, Z and the space.
TextAlphabet ==
    { 73, 304, 305, 105, 220, 252, 214, 246, 199, 231, 286, 287, 350, 351,
      65, 97, 90, 32 }

\* The longest text drawn from the alphabet.
MaxTextLen == 2

\* How often the normaliser is applied in a row.
MaxNormCalls == 2

\* "Istanbul" with a dotted capital, in lowercase, and in capitals with a
\* dotted capital I.
IstanbulForms ==
    { << 304, 115, 116, 97, 110, 98, 117, 108 >>,
      << 105, 115, 116, 97, 110, 98, 117, 108 >>,
      << 304, 83, 84, 65, 78, 66, 85, 76 >> }

\* The texts the normaliser is run on.
TextInputs ==
    IstanbulForms \cup UNION { [1..n -> TextAlphabet] : n \in 0..MaxTextLen }

\* The App is as after its first render and a text is chosen.
InitNormalize ==
    /\ normInput \in TextInputs
    /\ normOutput = << >>
    /\ normCalls = 0
    /\ loading = TRUE
    /\ usingSampleData = FALSE
    /\ yerlesimVerileri = << >>
    /\ searchTerm = << >>
    /\ deferredSearchTerm = << >>
    /\ filters = emptyFilters
    /\ currentPage = 1
    /\ searchedData = << >>
    /\ filteredData = << >>
    /\ ilOptions = << >>
    /\ ilceOptions = << >>
    /\ belediyeOptions = << >>
    /\ durumOptions = << >>
    /\ currentData = << >>
    /\ resetEffectPending = TRUE

\* normalizeTurkish is applied: to the text the first time, to its own result
\* after that.
Normalize ==
    /\ normCalls < MaxNormCalls
    /\ normOutput' = normalizeTurkish(IF normCalls = 0 THEN normInput ELSE normOutput)
    /\ normCalls' = normCalls + 1
    /\ UNCHANGED << normInput, appVars >>

NextNormalize == Normalize

SpecNormalize == InitNormalize /\ [][NextNormalize]_vars

(***************************************************************************)
(* The load on its own: every file a fetch can deliver, with fields that   *)
(* are absent, null, empty, strings, numbers or booleans                   *)
(***************************************************************************)

\* What a field of a parsed element can hold.
JsFieldValues == { << >>, Izmir, JsNull, JsNumber(35), JsTrue }

\* The parsed elements that are objects: il and mahalle each absent or
\* holding one of the values.
LoadObjects ==
    UNION { [S -> JsFieldValues] : S \in SUBSET { "il", "mahalle" } }

\* The longest file of the load.
MaxFileLen == 2

\* The parsed arrays.
LoadFiles ==
    UNION { [1..n -> LoadObjects \cup { JsNullItem }] : n \in 0..MaxFileLen }

NextLoad ==
    \/ RunResetEffect
    \/ \E rawData \in LoadFiles : FetchSucceeds(rawData)
    \/ \E cause \in FetchFailures : FetchFails(cause)
    \/ \E rawData \in LoadFiles : SanitizeThrows(rawData)

\* The effects of the mount run and the promise of fetchData settles.
SpecLoad == Init /\ [][NextLoad]_vars /\ WF_vars(NextLoad)

(***************************************************************************)
(* Properties                                                              *)
(***************************************************************************)

\* A page request: the previous button, the next button or a numbered button.
PageRequest ==
    \/ ClickPrevious
    \/ ClickNext
    \/ \E page \in 1..MaxPage : ClickPage(page)

\* C1: every step that changes the search term or a filter value schedules
\* the reset effect, and every step in which the reset effect runs leaves the
\* page number at 1, whatever the page was before.
C1_ChangeResetsPage ==
    [][ /\ (searchTerm' # searchTerm \/ filters' # filters) => resetEffectPending'
        /\ (resetEffectPending /\ ~resetEffectPending') => currentPage' = 1 ]_vars

\* C1 witness: a search or filter change was made while a page after the
\* first was shown, and its reset effect is about to run.
C1_Witness ==
    /\ ~loading
    /\ resetEffectPending
    /\ currentPage > 1

\* C2: every next, previous or jump-to-page request leaves the page number
\* inside [1, totalPages], and no request changes the page when
\* totalPages <= 1.
C2_PageRequestStaysInRange ==
    [][ PageRequest =>
            /\ currentPage' >= 1
            /\ currentPage' <= computeTotalPages(filteredData')
            /\ (totalPages <= 1 => currentPage' = currentPage) ]_vars

\* C3: with a non-empty query, a record of the dataset is in the search
\* result exactly when one of its five fields, normalised, contains the
\* normalised query.
C3_SearchExact ==
    deferredSearchTerm # << >> =>
        \A r \in Range(yerlesimVerileri) :
            (r \in Range(searchedData))
                <=> \E k \in FieldSet :
                        includes(normalizeTurkish(r[k]),
                                 normalizeTurkish(deferredSearchTerm))

\* C3 witness: a query is applied that keeps some records and drops others.
C3_Witness ==
    /\ deferredSearchTerm = QueryCesme
    /\ Len(searchedData) > 0
    /\ Len(searchedData) < Len(yerlesimVerileri)

\* C4: a searched record is kept by the column filter exactly when each of
\* il, ilce, belediye, durum is unconstrained or equal to the raw field, and
\* the mahalle constraint is empty or normalised-contained in the mahalle.
C4_FilterExact ==
    \A r \in Range(searchedData) :
        (r \in Range(filteredData))
            <=> /\ \A k \in SelectFields : filters[k] = << >> \/ r[k] = filters[k]
                /\ \/ filters.mahalle = << >>
                   \/ includes(normalizeTurkish(r.mahalle),
                               normalizeTurkish(filters.mahalle))

\* C4 witness: an exact-match constraint and a mahalle constraint are both
\* set, and they keep some searched records and drop others.
C4_Witness ==
    /\ filters.il # << >>
    /\ filters.mahalle # << >>
    /\ Len(filteredData) > 0
    /\ Len(filteredData) < Len(searchedData)

\* The searched records that satisfy the constraints of the fields other
\* than key.
satisfyingOthers(key) ==
    { r \in Range(searchedData) :
        /\ \A k \in SelectFields \ {key} : filters[k] = << >> \/ r[k] = filters[k]
        /\ \/ filters.mahalle = << >>
           \/ includes(normalizeTurkish(r.mahalle), normalizeTurkish(filters.mahalle)) }

C6_OptionsFrame ==
    [][ \A key \in SelectFields :
          /\ (/\ searchedData' = searchedData
              /\ \A k \in FieldSet \ {key} : filters'[k] = filters[k])
                => optionsOf(key)' = optionsOf(key)
          /\ optionsOf(key)' = getOptions(searchedData', filters', key) ]_vars

\* C6 witness: a field's own constraint is set and its option list still
\* offers the other values, while another field's constraint narrowed it.
C6_Witness ==
    /\ filters.il # << >>
    /\ Len(ilOptions) >= 2
    /\ filters.durum # << >>
    /\ Len(ilOptions) < Cardinality({ r.il : r \in Range(searchedData) })

\* C7: totalPages is the ceiling of n / 50 (0 for an empty list), and the
\* slice shown is the records at positions (p-1)*50 up to p*50 of the
\* filtered list, empty when p exceeds totalPages.
C7_PaginationExact ==
    LET n == Len(filteredData)
        first == (currentPage - 1) * ITEMS_PER_PAGE
        positions == { i \in 1..n : first < i /\ i <= first + ITEMS_PER_PAGE }
    IN /\ totalPages * ITEMS_PER_PAGE >= n
       /\ (totalPages - 1) * ITEMS_PER_PAGE < n \/ totalPages = 0
       /\ n = 0 => totalPages = 0
       /\ Len(currentData) = Cardinality(positions)
       /\ \A j \in 1..Len(currentData) : currentData[j] = filteredData[first + j]
       /\ currentPage > totalPages => currentData = << >>

\* C7 witness: the last of several pages is shown and it is a short page.
C7_Witness ==
    /\ totalPages > 1
    /\ currentPage = totalPages
    /\ Len(currentData) > 0
    /\ Len(currentData) < ITEMS_PER_PAGE

\* sub is full with every occurrence of some records removed: the order and
\* the multiplicity of what is kept are those of full.
keepsOrder(sub, full) ==
    sub = SelectSeq(full, LAMBDA r : r \in Range(sub))

\* C8: the filtered list is the searched list with records removed, and the
\* searched list is the dataset with records removed; neither stage
\* reorders or duplicates a record.
C8_StagesKeepOrder ==
    /\ keepsOrder(filteredData, searchedData)
    /\ keepsOrder(searchedData, yerlesimVerileri)

\* C8 witness: both stages removed records, and a record that occurs twice
\* in the dataset is kept twice.
C8_Witness ==
    /\ Len(filteredData) > 1
    /\ Len(filteredData) < Len(searchedData)
    /\ Len(searchedData) < Len(yerlesimVerileri)
    /\ \E i, j \in 1..Len(filteredData) : i < j /\ filteredData[i] = filteredData[j]

\* The fields the current filter state constrains.
constrained == { k \in FieldSet : filters[k] # << >> }

\* The filter state that keeps the constraints of the fields in S only.
restrictTo(S) == [k \in FieldSet |-> IF k \in S THEN filters[k] ELSE << >>]

\* C9: the column filter with no constraint returns its input, and for
\* every split of the filter state into two states on disjoint fields,
\* filtering by one and then by the other gives the list filtered once by
\* the whole state.
C9_FilterAlgebra ==
    /\ computeFilteredData(searchedData, emptyFilters) = searchedData
    /\ \A S \in SUBSET constrained :
           computeFilteredData(computeFilteredData(searchedData, restrictTo(S)),
                               restrictTo(constrained \ S))
               = filteredData

\* C9 witness: two fields are constrained and the filter removes records.
C9_Witness ==
    /\ Cardinality(constrained) >= 2
    /\ Len(filteredData) > 0
    /\ Len(filteredData) < Len(searchedData)

\* C10: with the empty query the searched list is the dataset itself.
C10_EmptyQueryIdentity ==
    deferredSearchTerm = << >> => searchedData = yerlesimVerileri

\* C10 witness: the long file is loaded and no query is applied.
C10_Witness ==
    /\ ~loading
    /\ deferredSearchTerm = << >>
    /\ Len(searchedData) = BigLen

\* C11: normalizeTurkish is idempotent: applying it to its own result
\* changes nothing, and the empty text normalises to the empty text.
C11_NormalizeIdempotent ==
    /\ []((normCalls >= 1 /\ normInput = << >>) => normOutput = << >>)
    /\ [][normCalls >= 1 => normOutput' = normOutput]_vars

\* C11 witness: normalizeTurkish was applied twice, starting from a text it
\* changes (a capital I and a lowercase s-cedilla).
C11_Witness ==
    /\ normCalls = 2
    /\ normInput = << 73, 351 >>
    /\ normOutput # normInput

\* The letter-form table of the claim: the four forms of I to i, the five
\* other Turkish pairs to their base letter, every other capital to its
\* lowercase letter.
foldedForm(c) ==
    CASE c \in {304, 73, 305, 105} -> 105
      [] c \in {220, 252} -> 117
      [] c \in {214, 246} -> 111
      [] c \in {199, 231} -> 99
      [] c \in {286, 287} -> 103
      [] c \in {350, 351} -> 115
      [] c \in 65..90 -> c + 32
      [] OTHER -> c

\* What no normalised text contains: a capital letter, or one of dotless i,
\* u-umlaut, o-umlaut, c-cedilla, g-breve, s-cedilla.
neverInOutput ==
    (65..90) \cup {304, 220, 214, 199, 286, 350} \cup {305, 252, 246, 231, 287, 351}

\* C12: the result of normalizeTurkish is the text with every code point
\* replaced by its folded form, so the three forms of "Istanbul" have one
\* result, and no result holds a capital or an unfolded Turkish letter.
C12_NormalizeFolds ==
    normCalls >= 1 =>
        /\ Len(normOutput) = Len(normInput)
        /\ \A i \in 1..Len(normInput) :
               /\ normOutput[i] = foldedForm(normInput[i])
               /\ normOutput[i] \notin neverInOutput
        /\ normInput \in IstanbulForms
               => normOutput = << 105, 115, 116, 97, 110, 98, 117, 108 >>

\* C12 witness: the capitals form of "Istanbul" was normalised.
C12_Witness ==
    /\ normCalls = 1
    /\ normInput = << 304, 83, 84, 65, 78, 66, 85, 76 >>

\* Other spellings of the two queries: "cesme" in capitals with cedillas and
\* as stored, "IZ" in lowercase, with a dotted capital and with a dotless i.
QueryVariants ==
    { QueryCesme, << 199, 69, 350, 77, 69 >>, Cesme,
      QueryIZ, << 105, 122 >>, << 304, 90 >>, << 305, 122 >> }

\* C13: every spelling with the normal form of the applied query gives the
\* searched list of the applied query, and the plain query "cesme" keeps
\* every record that has a field stored as "Cesme" with cedillas.
C13_SearchByNormalForm ==
    deferredSearchTerm # << >> =>
        /\ \A q \in QueryVariants :
               normalizeTurkish(q) = normalizeTurkish(deferredSearchTerm)
                   => computeSearchedData(yerlesimVerileri, q) = searchedData
        /\ deferredSearchTerm = QueryCesme
               => \A r \in Range(yerlesimVerileri) :
                      (\E k \in FieldSet : r[k] = Cesme) => r \in Range(searchedData)

\* C13 witness: the plain query "cesme" is applied and a record stored with
\* the cedilla spelling is in the searched list.
C13_Witness ==
    /\ deferredSearchTerm = QueryCesme
    /\ \E i \in 1..Len(searchedData) : searchedData[i].ilce = Cesme

\* C14: after a successful load every field of every record is a string.
C14_LoadedFieldsAreStrings ==
    (~loading /\ ~usingSampleData) =>
        \A i \in 1..Len(yerlesimVerileri) :
            \A k \in FieldSet : isString(yerlesimVerileri[i][k])

\* A step in which the load fails.
LoadFailure ==
    \/ \E cause \in FetchFailures : FetchFails(cause)
    \/ \E rawData \in LoadFiles : SanitizeThrows(rawData)

\* The files whose sanitization does not throw.
sanitizable == { rawData \in LoadFiles : ~sanitizeThrows(rawData) }

\* C15: a failing load installs the fallback records, sets the fallback flag
\* and ends the loading; loading ends in every run, and from then on the
\* records are the sanitized file or the fallback records.
C15_LoadEndsWithDataOrFallback ==
    /\ [][LoadFailure =>
            /\ yerlesimVerileri' = sampleData
            /\ usingSampleData'
            /\ ~loading']_vars
    /\ <>(~loading)
    /\ [](~loading =>
            \/ usingSampleData /\ yerlesimVerileri = sampleData
            \/ /\ ~usingSampleData
               /\ \E rawData \in sanitizable : yerlesimVerileri = sanitize(rawData))

\* C15 witness: the load failed and the fallback records are shown.
C15_Witness ==
    /\ ~loading
    /\ usingSampleData
    /\ yerlesimVerileri = sampleData
    /\ Len(currentData) = Len(sampleData)

\* C16: every memoized view equals its recomputation from the records, the
\* deferred search term, the filter values and the page number.
C16_MemosEqualRecomputation ==
    LET searched == computeSearchedData(yerlesimVerileri, deferredSearchTerm)
        filtered == computeFilteredData(searched, filters)
    IN /\ searchedData = searched
       /\ filteredData = filtered
       /\ \A key \in SelectFields : optionsOf(key) = getOptions(searched, filters, key)
       /\ currentData = computeCurrentData(currentPage, filtered)

\* C16 witness: a search, a selection and a page click have each left some
\* memo untouched.
C16_Witness ==
    /\ deferredSearchTerm = QueryIZ
    /\ filters.il = Izmir
    /\ currentPage = 2
    /\ Len(currentData) > 0
    /\ ilOptions = << Izmir >>

\* C17: in a settled state the page number is at most max(1, totalPages),
\* and a non-empty filtered list shows a non-empty slice.
C17_SettledPageInRange ==
    ~resetEffectPending =>
        /\ currentPage <= (IF totalPages > 1 THEN totalPages ELSE 1)
        /\ Len(filteredData) > 0 => Len(currentData) > 0

\* C18: a non-empty selected value of a dropdown field is one of the
\* field's options.
C18_SelectedValueIsOffered ==
    \A key \in SelectFields :
        filters[key] # << >> => filters[key] \in Range(optionsOf(key))

\* C19: picking an offered value v of field X leaves a non-empty filtered
\* list whose records all have X equal to v.
C19_OfferedValueHasRecords ==
    [][\A key \in SelectFields :
          \A value \in Range(optionsOf(key)) :
              SelectOption(key, value) =>
                  /\ searchedData' = searchedData
                  /\ \A k \in FieldSet \ {key} : filters'[k] = filters[k]
                  /\ Len(filteredData') > 0
                  /\ \A i \in 1..Len(filteredData') : filteredData'[i][key] = value]_vars

\* C19 witness: a value was picked in one dropdown while another dropdown
\* and the search constrain the list.
C19_Witness ==
    /\ resetEffectPending
    /\ deferredSearchTerm # << >>
    /\ filters.durum # << >>
    /\ filters.ilce # << >>
    /\ Len(filteredData) > 0
    /\ \A i \in 1..Len(filteredData) :
           filteredData[i].ilce = filters.ilce /\ filteredData[i].durum = filters.durum

\* The slices of pages 1..n one after the other.
RECURSIVE pagesUpTo(_, _)
pagesUpTo(n, filtered) ==
    IF n = 0 THEN << >>
    ELSE pagesUpTo(n - 1, filtered) \o computeCurrentData(n, filtered)

\* C20: the slices of pages 1..totalPages, in order, are the filtered list;
\* every page but the last holds 50 records, the last between 1 and 50.
C20_PagesPartition ==
    /\ pagesUpTo(totalPages, filteredData) = filteredData
    /\ \A p \in 1..(totalPages - 1) :
           Len(computeCurrentData(p, filteredData)) = ITEMS_PER_PAGE
    /\ totalPages >= 1 =>
           /\ Len(computeCurrentData(totalPages, filteredData)) >= 1
           /\ Len(computeCurrentData(totalPages, filteredData)) <= ITEMS_PER_PAGE

\* C20 witness: seven pages, the last with a single record.
C20_Witness ==
    /\ totalPages = 7
    /\ Len(computeCurrentData(7, filteredData)) = 1
    /\ Len(computeCurrentData(6, filteredData)) = ITEMS_PER_PAGE

====
